---- MODULE Spec2Model ----
(***************************************************************************)
(* Musify front end: the Home component of frontend/src/app/page.tsx and   *)
(* the three helpers of lib/api it calls.  The component's five useState   *)
(* cells are the variables url, state, jobId, status and error.  The       *)
(* network calls that have been issued and not yet settled, and the        *)
(* intervals that setInterval has started and clearInterval has not yet    *)
(* cleared, are the rest of the state.                                     *)
(*                                                                         *)
(* One step is one event-loop task of the page: a user event, an interval  *)
(* tick, or the continuation of an awaited call.  The setState calls of a  *)
(* task are committed together with the re-run of the polling effect that  *)
(* the commit causes (React batches the updates of one task and runs the   *)
(* effect's cleanup and body for the render they produce).                 *)
(***************************************************************************)
EXTENDS Naturals, Sequences, FiniteSets, Bags

VARIABLES url, state, jobId, status, error,
          createCalls, polls, intervals, cleanup,
          nextJob, last

vars == <<url, state, jobId, status, error,
          createCalls, polls, intervals, cleanup, nextJob, last>>

\* The five cells the handlers write; the calls in flight and the timers are the rest.
session == <<state, jobId, status, error>>

\* ------------------------------------------------------------------ bounds
\* Job identifiers the Job Service hands out in one run.
MaxJobs == 2
\* get-status calls in flight at once.
MaxPolls == 2
\* create-job calls in flight at once.
MaxCreates == 2

\* Entries of a progress list and songs of a job, in the specification that
\* draws the progress display's inputs.
MaxProgress == 10
MaxSongs == 10

\* ------------------------------------------------------------------ values
\* null of a string cell, of the job identifier cell and of the snapshot cell.
Null == "null"
NoJob == 0
NoStatus == << >>
\* window.open was not called.
NoWindow == << >>

AppState == {"idle", "loading", "downloading", "completed", "error"}

JobIds == 1..MaxJobs

\* A URL is a sequence of tokens; "a" stands for one alphanumeric character
\* and "?" for one character that is not alphanumeric.
EmptyUrl == << >>
PlaylistUrl == <<"https://", "open.spotify.com", "/", "playlist", "/", "a">>
TrackUrlWithQuery == <<"https://", "open.spotify.com", "/", "track", "/", "a", "?">>
HttpUrl == <<"http://", "open.spotify.com", "/", "playlist", "/", "a">>
ArtistUrl == <<"https://", "open.spotify.com", "/", "artist", "/", "a">>
NoIdUrl == <<"https://", "open.spotify.com", "/", "album", "/">>

Urls == {EmptyUrl, PlaylistUrl, TrackUrlWithQuery, HttpUrl, ArtistUrl, NoIdUrl}

API_URL == "http://localhost:8000"

ValidationMessage == "Please enter a valid Spotify playlist, album, or track URL"
StartFallback == "Failed to start download"
DownloadFallback == "Download failed"
StatusFallback == "Failed to check status"

\* What the Job Service may put in the "detail" of a rejected create-job and in
\* the "error" of a job; "" is the empty string, Null a missing or null field.
ServiceDetails == {"quota exceeded", "", Null}
ServiceErrors == {"spotdl crashed", "", Null}
FetchError == "Failed to fetch"

\* The progress list (by its length) and the song count of a JobStatus body.
Progresses == {[progress |-> 0, song_count |-> 0], [progress |-> 1, song_count |-> 2]}

\* The JobStatus bodies the service may answer GET /api/status/{j} with.
JobStatus(j, st, p, e) ==
    [job_id |-> j, status |-> st, progress |-> p.progress,
     song_count |-> p.song_count, error |-> e]

JobStatuses(j) ==
    {JobStatus(j, st, p, Null) :
        st \in {"pending", "downloading", "completed"}, p \in Progresses}
    \cup
    {JobStatus(j, "error", p, e) : p \in Progresses, e \in ServiceErrors}

\* JavaScript's a || b on strings and null.
Or(a, b) == IF a = Null \/ a = "" THEN b ELSE a

\* ------------------------------------------------------------------ helpers
isValidSpotifyUrl(u) ==
    /\ Len(u) >= 6
    /\ u[1] = "https://"
    /\ u[2] = "open.spotify.com"
    /\ u[3] = "/"
    /\ u[4] \in {"playlist", "album", "track"}
    /\ u[5] = "/"
    /\ u[6] = "a"

getDownloadUrl(j) == <<API_URL, "/api/download/", j, "/zip">>

\* The message of the Error startDownload throws: the service's detail, the
\* fallback when the detail is empty or missing, or fetch's own rejection.
startDownloadError(outcome) ==
    IF outcome.kind = "http" THEN Or(outcome.detail, StartFallback) ELSE FetchError

CreateFailures ==
    [kind : {"http"}, detail : ServiceDetails] \cup {[kind |-> "network", detail |-> Null]}

One(x) == SetToBag({x})

\* Math.max and Math.min.
Max(a, b) == IF a >= b THEN a ELSE b
Min(a, b) == IF a <= b THEN a ELSE b

\* The value handed to Progress with the Math.max guard left out: the
\* quotient has denominator 0 while the song count is 0.
ProgressValue_noMaxGuard(st) ==
    IF st = NoStatus
    THEN [num |-> 0, den |-> 1]
    ELSE [num |-> st[1].progress * 100, den |-> st[1].song_count]

\* The value handed to the Progress component for the snapshot cell st:
\* (progress.length / Math.max(song_count, 1)) * 100, or 0 without a snapshot.
\* The quotient is kept exact as numerator over denominator.
ProgressValue(st) ==
    IF st = NoStatus
    THEN [num |-> 0, den |-> 1]
    ELSE [num |-> st[1].progress * 100, den |-> Max(st[1].song_count, 1)]

\* The Progress component: a bar filled to its value, and full above 100.
ProgressShown(v) ==
    IF v.num > 100 * v.den THEN [num |-> 100, den |-> 1] ELSE v

\* The completion percentage on screen in the downloading view.
DisplayedPercent == ProgressShown(ProgressValue(status))

\* The polling effect with the cleanup function forgotten: a re-run starts a
\* new interval and leaves the previous one running.
useEffectPolling_noCleanup(s, j, s2, j2) ==
    IF s = s2 /\ j = j2
    THEN [intervals |-> intervals, cleanup |-> cleanup]
    ELSE IF s2 # "downloading" \/ j2 = NoJob
         THEN [intervals |-> intervals, cleanup |-> NoJob]
         ELSE [intervals |-> intervals (+) One(j2), cleanup |-> j2]

\* The polling effect guarded by the job identifier alone: it keeps an
\* interval for as long as a job identifier is held, whatever the state.
useEffectPolling_ignoresState(s, j, s2, j2) ==
    IF s = s2 /\ j = j2
    THEN [intervals |-> intervals, cleanup |-> cleanup]
    ELSE LET cleared == IF cleanup # NoJob THEN intervals (-) One(cleanup) ELSE intervals
         IN  IF j2 = NoJob
             THEN [intervals |-> cleared, cleanup |-> NoJob]
             ELSE [intervals |-> cleared (+) One(j2), cleanup |-> j2]

\* The polling effect starting its interval with a pollStatus that is not
\* re-created when jobId changes: it polls for the job identifier held
\* before the commit whenever there was one.
useEffectPolling_staleClosure(s, j, s2, j2) ==
    IF s = s2 /\ j = j2
    THEN [intervals |-> intervals, cleanup |-> cleanup]
    ELSE LET cleared == IF cleanup # NoJob THEN intervals (-) One(cleanup) ELSE intervals
             polled == IF j # NoJob THEN j ELSE j2
         IN  IF s2 # "downloading" \/ j2 = NoJob
             THEN [intervals |-> cleared, cleanup |-> NoJob]
             ELSE [intervals |-> cleared (+) One(polled), cleanup |-> polled]

\* The polling effect, re-run for a commit that takes (state, jobId) from
\* (s, j) to (s2, j2): nothing when the dependencies are unchanged; otherwise
\* the previous run's cleanup clears its interval and the body starts a new
\* one when the state is downloading and a job identifier is held.  pollStatus
\* is re-created exactly when jobId changes, so it adds no dependency.
useEffectPolling(s, j, s2, j2) ==
    IF s = s2 /\ j = j2
    THEN [intervals |-> intervals, cleanup |-> cleanup]
    ELSE LET cleared == IF cleanup # NoJob THEN intervals (-) One(cleanup) ELSE intervals
         IN  IF s2 # "downloading" \/ j2 = NoJob
             THEN [intervals |-> cleared, cleanup |-> NoJob]
             ELSE [intervals |-> cleared (+) One(j2), cleanup |-> j2]

\* The commit of a task that leaves state = s2 and jobId = j2.
Commit(s2, j2) ==
    /\ state' = s2
    /\ jobId' = j2
    /\ intervals' = useEffectPolling(state, jobId, s2, j2).intervals
    /\ cleanup' = useEffectPolling(state, jobId, s2, j2).cleanup

\* No call was settled by the task.
NoBody == << >>

\* The task just run: its kind, the state it started in, the job identifier it
\* concerns, what it passed to window.open and, for the continuation of a
\* call, what the call settled with.
Settled(op, j, b) ==
    last' = [op |-> op, from |-> state, job |-> j, opened |-> NoWindow, body |-> <<b>>]

Event(op, j, w) ==
    last' = [op |-> op, from |-> state, job |-> j, opened |-> w, body |-> NoBody]

\* ------------------------------------------------------------------ initial state
Init ==
    /\ url = EmptyUrl
    /\ state = "idle"
    /\ jobId = NoJob
    /\ status = NoStatus
    /\ error = Null
    /\ createCalls = EmptyBag
    /\ polls = EmptyBag
    /\ intervals = EmptyBag
    /\ cleanup = NoJob
    /\ nextJob = 1
    /\ last = [op |-> "init", from |-> "idle", job |-> NoJob, opened |-> NoWindow,
               body |-> NoBody]

\* ------------------------------------------------------------------ actions
\* The form is rendered in idle, loading and error; its input and its submit
\* button are disabled in loading, and the button also while url is empty.
FormShown == state \in {"idle", "loading", "error"}

onChange(u) ==
    /\ FormShown /\ state # "loading"
    /\ u # url
    /\ url' = u
    /\ Event("onChange", NoJob, NoWindow)
    /\ UNCHANGED <<state, jobId, status, error, createCalls, polls, intervals,
                   cleanup, nextJob>>

\* handleSubmit with the rejection of a malformed URL also moving the machine
\* to error.
handleSubmit_invalidSetsError ==
    /\ FormShown /\ state # "loading" /\ url # EmptyUrl
    /\ Event("submit", NoJob, NoWindow)
    /\ IF ~isValidSpotifyUrl(url)
       THEN /\ error' = ValidationMessage
            /\ Commit("error", jobId)
            /\ UNCHANGED createCalls
       ELSE /\ BagCardinality(createCalls) < MaxCreates
            /\ error' = Null
            /\ Commit("loading", jobId)
            /\ createCalls' = createCalls (+) One(url)
    /\ UNCHANGED <<url, status, polls, nextJob>>

handleSubmit ==
    /\ FormShown /\ state # "loading" /\ url # EmptyUrl
    /\ Event("submit", NoJob, NoWindow)
    /\ IF ~isValidSpotifyUrl(url)
       THEN /\ error' = ValidationMessage
            /\ UNCHANGED <<state, jobId, intervals, cleanup, createCalls>>
       ELSE /\ BagCardinality(createCalls) < MaxCreates
            /\ error' = Null
            /\ Commit("loading", jobId)
            /\ createCalls' = createCalls (+) One(url)
    /\ UNCHANGED <<url, status, polls, nextJob>>

\* startDownload(url) resolved: the service assigned a new job identifier.
startDownloadResolves(u) ==
    /\ BagIn(u, createCalls)
    /\ nextJob <= MaxJobs
    /\ createCalls' = createCalls (-) One(u)
    /\ nextJob' = nextJob + 1
    /\ Commit("downloading", nextJob)
    /\ Event("createResolved", nextJob, NoWindow)
    /\ UNCHANGED <<url, status, error, polls>>

\* handleSubmit's catch issuing startDownload again after a failure.
startDownloadRejects_retries(u, outcome) ==
    /\ BagIn(u, createCalls)
    /\ createCalls' = createCalls
    /\ error' = startDownloadError(outcome)
    /\ Commit("error", jobId)
    /\ Settled("createRejected", NoJob, outcome)
    /\ UNCHANGED <<url, status, polls, nextJob>>

startDownloadRejects(u, outcome) ==
    /\ BagIn(u, createCalls)
    /\ createCalls' = createCalls (-) One(u)
    /\ error' = startDownloadError(outcome)
    /\ Commit("error", jobId)
    /\ Settled("createRejected", NoJob, outcome)
    /\ UNCHANGED <<url, status, polls, nextJob>>

\* A tick of an active interval calls the pollStatus it was started with,
\* which issues getJobStatus for the job identifier it closed over.
intervalTick(j) ==
    /\ BagIn(j, intervals)
    /\ BagCardinality(polls) < MaxPolls
    /\ IF j = NoJob THEN polls' = polls ELSE polls' = polls (+) One(j)
    /\ Event("tick", j, NoWindow)
    /\ UNCHANGED <<url, state, jobId, status, error, createCalls, intervals,
                   cleanup, nextJob>>

\* pollStatus storing the job's error as it came, without the fallback.
pollStatusResolves_noFallback(j, js) ==
    /\ BagIn(j, polls)
    /\ polls' = polls (-) One(j)
    /\ status' = <<js>>
    /\ IF js.status = "completed"
       THEN /\ Commit("completed", jobId)
            /\ error' = error
       ELSE IF js.status = "error"
       THEN /\ error' = js.error
            /\ Commit("error", jobId)
       ELSE /\ Commit(state, jobId)
            /\ error' = error
    /\ Settled("pollResolved", j, js)
    /\ UNCHANGED <<url, createCalls, nextJob>>

\* pollStatus keeping the longer of the cached and the returned progress list.
pollStatusResolves_merges(j, js) ==
    /\ BagIn(j, polls)
    /\ polls' = polls (-) One(j)
    /\ status' = IF status = NoStatus THEN <<js>>
                 ELSE <<[js EXCEPT !.progress = Max(status[1].progress, js.progress)]>>
    /\ IF js.status = "completed"
       THEN /\ Commit("completed", jobId)
            /\ error' = error
       ELSE IF js.status = "error"
       THEN /\ error' = Or(js.error, DownloadFallback)
            /\ Commit("error", jobId)
       ELSE /\ Commit(state, jobId)
            /\ error' = error
    /\ Settled("pollResolved", j, js)
    /\ UNCHANGED <<url, createCalls, nextJob>>

\* pollStatus without the branch for status completed.
pollStatusResolves_ignoresCompleted(j, js) ==
    /\ BagIn(j, polls)
    /\ polls' = polls (-) One(j)
    /\ status' = <<js>>
    /\ IF js.status = "error"
       THEN /\ error' = Or(js.error, DownloadFallback)
            /\ Commit("error", jobId)
       ELSE /\ Commit(state, jobId)
            /\ error' = error
    /\ Settled("pollResolved", j, js)
    /\ UNCHANGED <<url, createCalls, nextJob>>

\* pollStatus after its await, the call having resolved with body js.
pollStatusResolves(j, js) ==
    /\ BagIn(j, polls)
    /\ polls' = polls (-) One(j)
    /\ status' = <<js>>
    /\ IF js.status = "completed"
       THEN /\ Commit("completed", jobId)
            /\ error' = error
       ELSE IF js.status = "error"
       THEN /\ error' = Or(js.error, DownloadFallback)
            /\ Commit("error", jobId)
       ELSE /\ Commit(state, jobId)
            /\ error' = error
    /\ Settled("pollResolved", j, js)
    /\ UNCHANGED <<url, createCalls, nextJob>>

\* pollStatus after its await, the call having thrown (non-2xx or network).
pollStatusRejects(j) ==
    /\ BagIn(j, polls)
    /\ polls' = polls (-) One(j)
    /\ error' = StatusFallback
    /\ Commit("error", jobId)
    /\ Event("pollRejected", j, NoWindow)
    /\ UNCHANGED <<url, status, createCalls, nextJob>>

\* The Download ZIP button of the completed view.
handleDownload ==
    /\ state = "completed"
    /\ Event("download", jobId,
             IF jobId # NoJob THEN getDownloadUrl(jobId) ELSE NoWindow)
    /\ UNCHANGED <<url, state, jobId, status, error, createCalls, polls,
                   intervals, cleanup, nextJob>>

\* handleReset with setStatus(null) forgotten.
handleReset_keepsStatus ==
    /\ state = "completed"
    /\ url' = EmptyUrl
    /\ Commit("idle", NoJob)
    /\ error' = Null
    /\ Event("reset", NoJob, NoWindow)
    /\ UNCHANGED <<status, createCalls, polls, nextJob>>

\* The Download Another button of the completed view.
handleReset ==
    /\ state = "completed"
    /\ url' = EmptyUrl
    /\ Commit("idle", NoJob)
    /\ status' = NoStatus
    /\ error' = Null
    /\ Event("reset", NoJob, NoWindow)
    /\ UNCHANGED <<createCalls, polls, nextJob>>

Next ==
    \/ \E u \in Urls : onChange(u)
    \/ handleSubmit
    \/ \E u \in Urls : startDownloadResolves(u)
    \/ \E u \in Urls, o \in CreateFailures : startDownloadRejects(u, o)
    \/ \E j \in JobIds : intervalTick(j)
    \/ \E j \in JobIds : \E js \in JobStatuses(j) : pollStatusResolves(j, js)
    \/ \E j \in JobIds : pollStatusRejects(j)
    \/ handleDownload
    \/ handleReset

Spec == Init /\ [][Next]_vars

\* The page with the timer and the network making progress: the interval
\* keeps ticking while it is active, and a get-status call in flight is
\* settled in the end.  The user types one of two URLs, and the payloads that
\* no transition reads (progress list, song count, failure detail) are fixed.
LiveUrls == {PlaylistUrl, ArtistUrl}

LiveStatuses(j) == {js \in JobStatuses(j) : js.song_count = 0 /\ js.error # ""}

Tick == \E j \in JobIds : intervalTick(j)

PollSettles ==
    \E j \in JobIds :
        \/ pollStatusRejects(j)
        \/ \E js \in LiveStatuses(j) : pollStatusResolves(j, js)

LiveNext ==
    \/ \E u \in LiveUrls : onChange(u)
    \/ handleSubmit
    \/ \E u \in LiveUrls : startDownloadResolves(u)
    \/ \E u \in LiveUrls : startDownloadRejects(u, [kind |-> "network", detail |-> Null])
    \/ Tick
    \/ PollSettles
    \/ handleDownload
    \/ handleReset

LiveSpec == Init /\ [][LiveNext]_vars /\ WF_vars(Tick) /\ WF_vars(PollSettles)

\* The downloading view under every snapshot the service may return: job 1
\* has just been created, and each answer to a poll carries any progress
\* length and any song count within the bounds.
ProgressCounts == [progress : 0..MaxProgress, song_count : 0..MaxSongs]

RatioInit ==
    /\ url = PlaylistUrl
    /\ state = "downloading"
    /\ jobId = 1
    /\ status = NoStatus
    /\ error = Null
    /\ createCalls = EmptyBag
    /\ polls = EmptyBag
    /\ intervals = One(1)
    /\ cleanup = 1
    /\ nextJob = 2
    /\ last = [op |-> "createResolved", from |-> "loading", job |-> 1,
               opened |-> NoWindow, body |-> NoBody]

RatioNext ==
    \/ intervalTick(1)
    \/ \E p \in ProgressCounts :
            pollStatusResolves(1, JobStatus(1, "downloading", p, Null))

RatioSpec == RatioInit /\ [][RatioNext]_vars

\* ------------------------------------------------------------------ claims
PollSettled(e) == e.op \in {"pollResolved", "pollRejected"}

\* C1: the session holds a job identifier only in downloading, completed or
\* error; in idle and in loading jobId is null.
JobIdOnlyAfterSubmission ==
    state \in {"idle", "loading"} => jobId = NoJob

\* C2: a get-status response or failure for a job that is no longer the
\* session's job (the session was reset, or resubmitted and given a new job)
\* changes none of state, jobId, status and error.
StaleResponseIgnored ==
    [][(PollSettled(last') /\ last'.job # jobId) => UNCHANGED session]_vars

\* C3: in completed and in error no get-status response or failure changes the
\* state; completed is left only by reset, error only by reset or submit.
TerminalStatesStable ==
    [][/\ (state \in {"completed", "error"} /\ PollSettled(last')) => state' = state
       /\ (state = "completed" /\ state' # state) => last'.op = "reset"
       /\ (state = "error" /\ state' # state) => last'.op \in {"reset", "submit"}]_vars

\* C4: at most one create-job call is in flight, and the state is loading for
\* as long as one is.
OneCreateInFlight ==
    /\ BagCardinality(createCalls) <= 1
    /\ createCalls # EmptyBag => state = "loading"

CreateMovesLoadingToDownloading ==
    [][/\ (last'.op = "submit" /\ isValidSpotifyUrl(url) /\ state = "idle") =>
                /\ state' = "loading"
                /\ createCalls' = createCalls (+) One(url)
       /\ last'.op = "createResolved" =>
                /\ state = "loading"
                /\ state' = "downloading"
                /\ jobId' = last'.job
       /\ (state' = "downloading" /\ state # "downloading") =>
                last'.op = "createResolved"]_vars

\* C8: a submit of a URL that fails isValidSpotifyUrl issues no call, leaves
\* state (so never downloading or completed), jobId and status as they were,
\* and sets a non-empty error message.
InvalidSubmitRejectedLocally ==
    [][(last'.op = "submit" /\ ~isValidSpotifyUrl(url)) =>
            /\ createCalls' = createCalls
            /\ polls' = polls
            /\ state' = state
            /\ state' \notin {"downloading", "completed"}
            /\ jobId' = jobId
            /\ status' = status
            /\ error' \notin {Null, ""}]_vars

\* C8 happens: a malformed URL was submitted from error with a job held.
InvalidSubmitWitness ==
    /\ last.op = "submit"
    /\ ~isValidSpotifyUrl(url)
    /\ state = "error"
    /\ jobId # NoJob
    /\ error = ValidationMessage

\* C9: in completed the job identifier is present, and the download action
\* opens <base>/api/download/<jobId>/zip.
DownloadNeverNoOp ==
    /\ state = "completed" => jobId # NoJob
    /\ last.op = "download" =>
            /\ last.job # NoJob
            /\ last.opened = <<API_URL, "/api/download/", last.job, "/zip">>

CreateFailureMovesLoadingToError ==
    [][last'.op = "createRejected" =>
            /\ state = "loading"
            /\ state' = "error"
            /\ LET o == last'.body[1]
               IN  (o.kind = "http" /\ o.detail \notin {Null, ""}) => error' = o.detail
            /\ jobId' = jobId
            /\ intervals' = EmptyBag]_vars

Requests == BagCardinality(createCalls) + BagCardinality(polls)

PollErrorReported ==
    [][state = "downloading" =>
          /\ (last'.op = "pollResolved" /\ last'.body[1].status = "error") =>
                /\ state' = "error"
                /\ error' = IF last'.body[1].error \in {Null, ""}
                            THEN "Download failed" ELSE last'.body[1].error
                /\ jobId' = jobId
          /\ last'.op = "pollRejected" =>
                /\ state' = "error"
                /\ error' = "Failed to check status"
                /\ jobId' = jobId]_vars

\* C14 happens: in downloading the job was reported failed with an empty
\* error, and the fallback message is shown.
PollErrorReportedWitness ==
    /\ last.op = "pollResolved"
    /\ last.from = "downloading"
    /\ last.body[1].status = "error"
    /\ last.body[1].error = ""
    /\ state = "error"
    /\ error = DownloadFallback

\* C15: processed in downloading, a response with status pending or
\* downloading leaves the state, jobId, error and url as they were and makes
\* the returned snapshot, whole, the cached one.
SnapshotReplacedWhole ==
    [][(/\ state = "downloading"
        /\ last'.op = "pollResolved"
        /\ last'.body[1].status \in {"pending", "downloading"}) =>
            /\ state' = "downloading"
            /\ status' = last'.body
            /\ jobId' = jobId
            /\ error' = error
            /\ url' = url]_vars

\* C15 happens: in downloading a pending snapshot with an empty progress list
\* has been cached while another request is in flight.
SnapshotReplacedWitness ==
    /\ last.op = "pollResolved"
    /\ last.from = "downloading"
    /\ state = "downloading"
    /\ status = last.body
    /\ status[1].status = "pending"
    /\ status[1].progress = 0
    /\ polls # EmptyBag

TerminalAnswer ==
    last.op = "pollResolved" => last.body[1].status \in {"completed", "error"}

\* C16: with ticks and call completions weakly fair, if from some point on
\* every answered get-status reports completed or error, then downloading
\* always leads to completed or error.
PollingTerminates ==
    <>[]TerminalAnswer => [](state = "downloading" => <>(state \in {"completed", "error"}))

\* C16 happens: a tick's request was answered completed and the machine left
\* downloading for completed.
PollingTerminatesWitness ==
    /\ last.op = "pollResolved"
    /\ last.from = "downloading"
    /\ last.body[1].status = "completed"
    /\ state = "completed"
    /\ intervals = EmptyBag
    /\ polls = EmptyBag

SnapshotOfCurrentJob ==
    status # NoStatus => status[1].job_id = jobId

\* C19: in completed the cached snapshot is present and its status is
\* completed.
CompletedSnapshotKept ==
    state = "completed" => (status # NoStatus /\ status[1].status = "completed")

====
